---- MODULE Spec2Model ----
(***************************************************************************)
(* Model of the SQLite -> PostgreSQL importer of the IPv4 country lookup   *)
(* table (src/main.go).  One run of main() is a sequence of steps on one   *)
(* PostgreSQL transaction; the model keeps apart what the transaction sees *)
(* (txTable) and what is committed and visible to everybody else           *)
(* (committed).  Runs follow each other (NextRun) against the same source. *)
(***************************************************************************)
EXTENDS Integers, Sequences, FiniteSets, TLC

\* ---------------------------------------------------------------- bounds
MaxRows == 2       \* rows in the source table ipv4
MaxPreRows == 1    \* rows the destination table holds before the first run

\* ------------------------------------------------------------ data model
\* A column value of either database is NULL or one value.
Null == <<>>
NotNull(v) == <<v>>

\* The range starts the rows have.
IpFroms == {0, 16777216}

\* Rows of the SQLite table ipv4.
SrcRows ==
    [IPFROM : {NotNull(k) : k \in IpFroms},
     IPTO : {NotNull(16777215)},
     REGISTRY : {Null, NotNull("APNIC")},
     ASSIGNED : {NotNull(0)},
     CTRY : {NotNull("AU")},
     CNTRY : {NotNull("AUS")},
     COUNTRY : {NotNull("Australia")}]

\* Rows of the PostgreSQL table country_code_lookups.
DestRows ==
    [ipfrom : {NotNull(k) : k \in IpFroms},
     ipto : {NotNull(16777215)},
     registry : {Null, NotNull("APNIC")},
     assigned : {NotNull(0)},
     ctry : {NotNull("AU")},
     cntry : {NotNull("AUS")},
     country : {NotNull("Australia")}]

\* The destination table: absent, or a set of rows with or without the
\* index country_code_lookups_ipto_index.
NoTable == [exists |-> FALSE, rows |-> {}, index |-> FALSE]
EmptyTable == [exists |-> TRUE, rows |-> {}, index |-> FALSE]

UniqueKeys(R) == \A a, b \in R : a.ipfrom = b.ipfrom => a = b

\* What the destination may hold before the first run: no table, or a table
\* of rows of an earlier import with its index.
PreRows == {d \in DestRows : d.registry = NotNull("APNIC")}
PreTables ==
    {NoTable} \cup
    {[exists |-> TRUE, rows |-> R, index |-> TRUE] :
        R \in {S \in SUBSET PreRows : Cardinality(S) <= MaxPreRows /\ UniqueKeys(S)}}

\* s.Scan into a Go int / string: NULL becomes the zero value.
ScanInt(c) == IF c = Null THEN 0 ELSE c[1]
ScanString(c) == IF c = Null THEN "" ELSE c[1]

\* The zero value of oneRow.
ZeroRow ==
    [ipFrom |-> 0, ipTo |-> 0, registry |-> "", assigned |-> 0,
     ctry |-> "", cntry |-> "", country |-> ""]

\* s.Scan(&row.ipFrom, ..., &row.country) on one result row.
ScanRowValues(s) ==
    [ipFrom |-> ScanInt(s.IPFROM), ipTo |-> ScanInt(s.IPTO),
     registry |-> ScanString(s.REGISTRY), assigned |-> ScanInt(s.ASSIGNED),
     ctry |-> ScanString(s.CTRY), cntry |-> ScanString(s.CNTRY),
     country |-> ScanString(s.COUNTRY)]

\* The row INSERT ... VALUES ($1..$7) stores for a oneRow.
InsertValues(r) ==
    [ipfrom |-> NotNull(r.ipFrom), ipto |-> NotNull(r.ipTo),
     registry |-> NotNull(r.registry), assigned |-> NotNull(r.assigned),
     ctry |-> NotNull(r.ctry), cntry |-> NotNull(r.cntry),
     country |-> NotNull(r.country)]

Perms(n) == {p \in [1..n -> 1..n] : \A a, b \in 1..n : a # b => p[a] # p[b]}
Reorderings(t) == {[k \in 1..Len(t) |-> t[p[k]]] : p \in Perms(Len(t))}

\* Mutant of SelectRows: the query without its ORDER BY.
SelectRowsUnordered(t) == Reorderings(t)

\* SELECT ... FROM ipv4 ORDER BY IPFROM ASC: the result sets the query may
\* return (rows of equal IPFROM come in any order).
SelectRows(t) ==
    {s \in Reorderings(t) :
        \A a, b \in 1..Len(s) : a < b => s[a].IPFROM[1] <= s[b].IPFROM[1]}

\* Mutant of PKViolation: the table created without its primary key.
NoPrimaryKey(t, r) == FALSE

\* The constraint country_code_lookups_pk: a row of this ipfrom is stored.
PKViolation(t, r) == \E d \in t.rows : d.ipfrom = NotNull(r.ipFrom)

\* Mutant of InsertReturn: a wrong affected-row count treated as an error.
InsertReturnStrict(e, n) == IF e # "nil" \/ n # 1 THEN "fatal" ELSE "continue"

\* How insertIPv4PGData ends for Exec's error e and affected-row count n.
InsertReturn(e, n) == IF e # "nil" THEN "fatal" ELSE "continue"

\* Mutant of CountsMatch: the comparison dropped.
CountsAlwaysMatch(p, s) == TRUE

\* The row-count comparison of the verification step.
CountsMatch(p, s) == p = s

\* The affected-row counts a command tag may report: none, one, more than one.
AffectedCounts == {0, 1, 2}

VARIABLES
    ipv4,        \* the source table, a sequence of rows in storage order
    committed,   \* the destination table as committed
    before,      \* committed, as it was when the current run started
    rerun,       \* FALSE in the first run, TRUE in every run after it
    prev,        \* how the previous run ended: "none", "done", "exited"
    pc,          \* position of main()
    tx,          \* the transaction: "none", "open", "rolledback", "aborted", "committed"
    txTable,     \* the destination table as the open transaction sees it
    rs,          \* the result set of the ordered scan
    i,           \* index in rs of the row the scan callback is at
    row,         \* the oneRow of the callback
    err,         \* the error value of the last statement
    tag,         \* RowsAffected of the last insert
    pgRowCount,
    sRowCount,
    log,         \* the steps executed in this run, in order
    warnings,    \* "Wrong number of rows affected" lines logged
    commits,     \* tx.Commit() calls of this run
    rollbacks,   \* tx.Rollback() calls of this run
    fatalMsg     \* what the fatal log line reports

vars == <<ipv4, committed, before, rerun, prev, pc, tx, txTable, rs, i, row, err,
          tag, pgRowCount, sRowCount, log, warnings, commits, rollbacks, fatalMsg>>

NoMsg == [kind |-> "none"]
ErrMsg(e) == [kind |-> "error", err |-> e]

Step(name, k, good) == [step |-> name, row |-> k, ok |-> good]

Init ==
    /\ ipv4 \in UNION {[1..n -> SrcRows] : n \in 0..MaxRows}
    /\ committed \in PreTables
    /\ before = committed
    /\ rerun = FALSE
    /\ prev = "none"
    /\ pc = "begin"
    /\ tx = "none"
    /\ txTable = NoTable
    /\ rs = <<>>
    /\ i = 1
    /\ row = ZeroRow
    /\ err = "nil"
    /\ tag = 0
    /\ pgRowCount = 0
    /\ sRowCount = 0
    /\ log = <<>>
    /\ warnings = 0
    /\ commits = 0
    /\ rollbacks = 0
    /\ fatalMsg = NoMsg

\* log.Fatal: the message is logged and os.Exit(1) ends the process at once,
\* without running the deferred calls; the server aborts the transaction of
\* the connection that went away.
Fatal(e, msg, entry) ==
    /\ err' = e
    /\ fatalMsg' = msg
    /\ log' = Append(log, entry)
    /\ pc' = "exited"
    /\ tx' = IF tx = "open" THEN "aborted" ELSE tx
    /\ txTable' = NoTable

\* tx, err := pg.Begin()
Begin ==
    /\ pc = "begin"
    /\ \/ /\ tx' = "open"
          /\ txTable' = committed
          /\ err' = "nil"
          /\ log' = Append(log, Step("begin", 0, TRUE))
          /\ pc' = "drop"
          /\ UNCHANGED fatalMsg
       \/ Fatal("begin", ErrMsg("begin"), Step("begin", 0, FALSE))
    /\ UNCHANGED <<ipv4, committed, before, rerun, prev, rs, i, row, tag,
                   pgRowCount, sRowCount, warnings, commits, rollbacks>>

\* Mutant of DropTable: the statement run on the pool, outside the transaction.
DropTableOnPool ==
    /\ pc = "drop"
    /\ committed' = NoTable
    /\ txTable' = NoTable
    /\ err' = "nil"
    /\ log' = Append(log, Step("drop", 0, TRUE))
    /\ pc' = "create"
    /\ UNCHANGED <<ipv4, before, rerun, prev, tx, rs, i, row, tag, pgRowCount,
                   sRowCount, warnings, commits, rollbacks, fatalMsg>>

\* DROP TABLE IF EXISTS country_code_lookups, in the transaction.
DropTable ==
    /\ pc = "drop"
    /\ \/ /\ txTable' = NoTable
          /\ err' = "nil"
          /\ log' = Append(log, Step("drop", 0, TRUE))
          /\ pc' = "create"
          /\ UNCHANGED <<tx, fatalMsg>>
       \/ Fatal("drop", ErrMsg("drop"), Step("drop", 0, FALSE))
    /\ UNCHANGED <<ipv4, committed, before, rerun, prev, rs, i, row, tag,
                   pgRowCount, sRowCount, warnings, commits, rollbacks>>

\* CREATE TABLE country_code_lookups (ipfrom bigint primary key, ...).
CreateTable ==
    /\ pc = "create"
    /\ \/ /\ ~txTable.exists
          /\ txTable' = EmptyTable
          /\ err' = "nil"
          /\ log' = Append(log, Step("create", 0, TRUE))
          /\ pc' = "select"
          /\ UNCHANGED <<tx, fatalMsg>>
       \/ Fatal("create", ErrMsg("create"), Step("create", 0, FALSE))
    /\ UNCHANGED <<ipv4, committed, before, rerun, prev, rs, i, row, tag,
                   pgRowCount, sRowCount, warnings, commits, rollbacks>>

\* sdb.Select(sQuery, callback): the ordered query is prepared and run.
SelectQuery ==
    /\ pc = "select"
    /\ \/ /\ rs' \in SelectRows(ipv4)
          /\ i' = 1
          /\ err' = "nil"
          /\ log' = Append(log, Step("select", 0, TRUE))
          /\ pc' = "scan"
          /\ UNCHANGED <<tx, txTable, fatalMsg>>
       \/ /\ Fatal("select", ErrMsg("select"), Step("select", 0, FALSE))
          /\ UNCHANGED <<rs, i>>
    /\ UNCHANGED <<ipv4, committed, before, rerun, prev, row, tag,
                   pgRowCount, sRowCount, warnings, commits, rollbacks>>

\* The callback's s.Scan for the next result row.
ScanRow ==
    /\ pc = "scan"
    /\ i <= Len(rs)
    /\ \/ /\ row' = ScanRowValues(rs[i])
          /\ err' = "nil"
          /\ log' = Append(log, Step("scan", i, TRUE))
          /\ pc' = "insert"
          /\ UNCHANGED <<tx, txTable, fatalMsg>>
       \/ /\ Fatal("scan", ErrMsg("scan"), Step("scan", i, FALSE))
          /\ UNCHANGED row
    /\ UNCHANGED <<ipv4, committed, before, rerun, prev, rs, i, tag,
                   pgRowCount, sRowCount, warnings, commits, rollbacks>>

\* sdb.Select returns nil after the last row.
SelectDone ==
    /\ pc = "scan"
    /\ i > Len(rs)
    /\ pc' = "index"
    /\ UNCHANGED <<ipv4, committed, before, rerun, prev, tx, txTable, rs, i, row, err,
                   tag, pgRowCount, sRowCount, log, warnings, commits, rollbacks,
                   fatalMsg>>

InsertEntry(good, n) ==
    [step |-> "insert", row |-> i, ok |-> good, key |-> row.ipFrom, affected |-> n]

\* What tx.Exec of the INSERT may return: its error and affected-row count.
ExecInsertResults(t, r) ==
    IF PKViolation(t, r)
    THEN {<<"pk", 0>>}
    ELSE {<<"insert", 0>>} \cup {<<"nil", n>> : n \in AffectedCounts}

\* insertIPv4PGData(tx, row)
InsertRow ==
    /\ pc = "insert"
    /\ \E res \in ExecInsertResults(txTable, row) :
          LET e == res[1]
              n == res[2]
          IN  /\ tag' = n
              /\ IF InsertReturn(e, n) = "fatal"
                 THEN /\ Fatal(e, ErrMsg(e), InsertEntry(FALSE, n))
                      /\ UNCHANGED <<warnings, i>>
                 ELSE /\ warnings' = warnings + (IF n # 1 THEN 1 ELSE 0)
                      /\ txTable' =
                            IF n >= 1
                            THEN [txTable EXCEPT !.rows = @ \cup {InsertValues(row)}]
                            ELSE txTable
                      /\ err' = e
                      /\ log' = Append(log, InsertEntry(TRUE, n))
                      /\ i' = i + 1
                      /\ pc' = "scan"
                      /\ UNCHANGED <<tx, fatalMsg>>
    /\ UNCHANGED <<ipv4, committed, before, rerun, prev, rs, row,
                   pgRowCount, sRowCount, commits, rollbacks>>

\* CREATE INDEX country_code_lookups_ipto_index ON country_code_lookups (ipto)
CreateIndex ==
    /\ pc = "index"
    /\ \/ /\ txTable' = [txTable EXCEPT !.index = TRUE]
          /\ err' = "nil"
          /\ log' = Append(log, Step("index", 0, TRUE))
          /\ pc' = "countpg"
          /\ UNCHANGED <<tx, fatalMsg>>
       \/ Fatal("index", ErrMsg("index"), Step("index", 0, FALSE))
    /\ UNCHANGED <<ipv4, committed, before, rerun, prev, rs, i, row, tag,
                   pgRowCount, sRowCount, warnings, commits, rollbacks>>

\* SELECT count(*) FROM country_code_lookups, in the transaction.
CountPG ==
    /\ pc = "countpg"
    /\ \/ /\ pgRowCount' = Cardinality(txTable.rows)
          /\ err' = "nil"
          /\ log' = Append(log, Step("countpg", 0, TRUE))
          /\ pc' = "countsrc"
          /\ UNCHANGED <<tx, txTable, fatalMsg>>
       \/ /\ Fatal("countpg", ErrMsg("countpg"), Step("countpg", 0, FALSE))
          /\ UNCHANGED pgRowCount
    /\ UNCHANGED <<ipv4, committed, before, rerun, prev, rs, i, row, tag,
                   sRowCount, warnings, commits, rollbacks>>

\* SELECT count(*) FROM ipv4
CountSource ==
    /\ pc = "countsrc"
    /\ \/ /\ sRowCount' = Len(ipv4)
          /\ err' = "nil"
          /\ log' = Append(log, Step("countsrc", 0, TRUE))
          /\ pc' = "verify"
          /\ UNCHANGED <<tx, txTable, fatalMsg>>
       \/ /\ Fatal("countsrc", ErrMsg("countsrc"), Step("countsrc", 0, FALSE))
          /\ UNCHANGED sRowCount
    /\ UNCHANGED <<ipv4, committed, before, rerun, prev, rs, i, row, tag,
                   pgRowCount, warnings, commits, rollbacks>>

\* if pgRowCount != sRowCount { log.Fatalf(...) }
Verify ==
    /\ pc = "verify"
    /\ IF CountsMatch(pgRowCount, sRowCount)
       THEN /\ log' = Append(log, Step("verify", 0, TRUE))
            /\ pc' = "report"
            /\ UNCHANGED <<tx, txTable, err, fatalMsg>>
       ELSE Fatal(err,
                  [kind |-> "mismatch", sqlite |-> sRowCount, pg |-> pgRowCount],
                  Step("verify", 0, FALSE))
    /\ UNCHANGED <<ipv4, committed, before, rerun, prev, rs, i, row, tag,
                   pgRowCount, sRowCount, warnings, commits, rollbacks>>

\* fmt.Println("Import of SQLite country lookup data is complete"); the
\* commit before it is commented out.
Report ==
    /\ pc = "report"
    /\ log' = Append(log, Step("report", 0, TRUE))
    /\ pc' = "return"
    /\ UNCHANGED <<ipv4, committed, before, rerun, prev, tx, txTable, rs, i, row, err,
                   tag, pgRowCount, sRowCount, warnings, commits, rollbacks, fatalMsg>>

\* Mutant of DeferredRollback: the transaction committed before main returns.
DeferredCommit ==
    /\ pc = "return"
    /\ tx = "open"
    /\ committed' = txTable
    /\ tx' = "committed"
    /\ commits' = commits + 1
    /\ txTable' = NoTable
    /\ pc' = "done"
    /\ UNCHANGED <<ipv4, before, rerun, prev, rs, i, row, err, tag, pgRowCount,
                   sRowCount, log, warnings, rollbacks, fatalMsg>>

\* main returns: the deferred tx.Rollback() runs on the transaction, which is
\* still open.
DeferredRollback ==
    /\ pc = "return"
    /\ tx = "open"
    /\ \/ tx' = "rolledback"
       \/ tx' = "aborted"     \* Rollback returns an error, which is only logged
    /\ rollbacks' = rollbacks + 1
    /\ txTable' = NoTable
    /\ pc' = "done"
    /\ UNCHANGED <<ipv4, committed, before, rerun, prev, rs, i, row, err, tag,
                   pgRowCount, sRowCount, log, warnings, commits, fatalMsg>>

Ended == pc \in {"done", "exited"}

\* The program is started again against the same source.
NextRun ==
    /\ Ended
    /\ rerun' = TRUE
    /\ prev' = pc
    /\ before' = committed
    /\ pc' = "begin"
    /\ tx' = "none"
    /\ txTable' = NoTable
    /\ rs' = <<>>
    /\ i' = 1
    /\ row' = ZeroRow
    /\ err' = "nil"
    /\ tag' = 0
    /\ pgRowCount' = 0
    /\ sRowCount' = 0
    /\ log' = <<>>
    /\ warnings' = 0
    /\ commits' = 0
    /\ rollbacks' = 0
    /\ fatalMsg' = NoMsg
    /\ UNCHANGED <<ipv4, committed>>

Next ==
    \/ Begin
    \/ DropTable
    \/ CreateTable
    \/ SelectQuery
    \/ ScanRow
    \/ SelectDone
    \/ InsertRow
    \/ CreateIndex
    \/ CountPG
    \/ CountSource
    \/ Verify
    \/ Report
    \/ DeferredRollback
    \/ NextRun

Spec == Init /\ [][Next]_vars

\* ------------------------------------------------------------ properties
HasStep(name) == \E k \in 1..Len(log) : log[k].step = name
Inserts == {k \in 1..Len(log) : log[k].step = "insert"}

\* The table a complete import of src produces.
ImportedTable(src) ==
    [exists |-> TRUE,
     rows |-> {InsertValues(ScanRowValues(src[k])) : k \in 1..Len(src)},
     index |-> TRUE]

SameValues(d, s) ==
    /\ d.ipfrom = s.IPFROM
    /\ d.ipto = s.IPTO
    /\ d.registry = s.REGISTRY
    /\ d.assigned = s.ASSIGNED
    /\ d.ctry = s.CTRY
    /\ d.cntry = s.CNTRY
    /\ d.country = s.COUNTRY

HasDuplicateKey(src) ==
    \E a, b \in 1..Len(src) : a # b /\ src[a].IPFROM = src[b].IPFROM

\* C1 (as claimed): after a run that reached the completion report, the
\* destination table holds, for every source row, exactly one row of the same
\* ipfrom, and that row's other columns equal the source row's.
RoundTripFidelity ==
    pc = "done" =>
        /\ committed.exists
        /\ \A k \in 1..Len(ipv4) :
              /\ Cardinality({d \in committed.rows : d.ipfrom = ipv4[k].IPFROM}) = 1
              /\ \A d \in committed.rows :
                    d.ipfrom = ipv4[k].IPFROM => SameValues(d, ipv4[k])

\* C2 (as claimed): a run that completes has committed its transaction exactly
\* once, after the verification succeeded, and a run that failed has not
\* committed.
CommitExactlyOnce ==
    /\ pc = "done" => commits = 1 /\ tx = "committed"
    /\ commits >= 1 => HasStep("verify")
    /\ pc = "exited" => commits = 0

\* C3: in every state the committed destination table is what it was when
\* the run started, or the complete import of the source table.
AllOrNothing ==
    committed = before \/ committed = ImportedTable(ipv4)

\* A run that ended fatally in the middle of the copy, having dropped a
\* non-empty table and inserted a row in its transaction.
AllOrNothingWitness ==
    /\ pc = "exited"
    /\ before.exists /\ before.rows # {}
    /\ \E k \in Inserts : log[k].ok /\ log[k].affected >= 1
    /\ \E k \in Inserts : ~log[k].ok
    /\ committed = before

\* C4 (as claimed): after a run that reached the completion report, the
\* destination table has as many rows as the source table.
CardinalityAfterRun ==
    pc = "done" => committed.exists /\ Cardinality(committed.rows) = Len(ipv4)

\* C5 (as claimed): every run that began its transaction and ended without
\* committing has run the deferred tx.Rollback() on it.
RollbackOnEveryExit ==
    (Ended /\ tx # "none" /\ commits = 0) => rollbacks = 1

SecondOfKey(k) ==
    /\ k \in Inserts
    /\ \E j \in 1..(log[k].row - 1) : ScanInt(rs[j].IPFROM) = log[k].key

\* An insert of a row whose ipfrom an earlier insert of the run stored.
KeyStoredBefore(k) ==
    /\ k \in Inserts
    /\ \E j \in Inserts :
          j < k /\ log[j].key = log[k].key /\ log[j].ok /\ log[j].affected >= 1

\* C7 (as claimed): with two source rows of the same ipfrom, the insert of
\* the second fails, the run ends fatally without the index, verification
\* and completion steps, and the destination table is unchanged.
DuplicateKeyAbort ==
    HasDuplicateKey(ipv4) =>
        /\ \A k \in 1..Len(log) : SecondOfKey(k) => ~log[k].ok
        /\ ~HasStep("index") /\ ~HasStep("verify") /\ ~HasStep("report")
        /\ Ended => (pc = "exited" /\ committed = before)

\* C7 (amended): an insert of a row whose ipfrom an earlier insert stored
\* fails the primary key and ends the run there, before the index,
\* verification and completion steps; and a run over a source with a
\* duplicated ipfrom never reports completion and leaves the destination
\* table unchanged.
DuplicateKeyAbortWhenStored ==
    /\ \A k \in 1..Len(log) :
          KeyStoredBefore(k) =>
              /\ ~log[k].ok
              /\ k = Len(log)
              /\ pc = "exited"
              /\ fatalMsg = ErrMsg("pk")
    /\ HasDuplicateKey(ipv4) =>
          /\ ~HasStep("report")
          /\ Ended => (pc = "exited" /\ committed = before)

\* The run ended at the insert of a duplicated ipfrom.
DuplicateKeyWitness ==
    /\ pc = "exited"
    /\ Len(log) > 0
    /\ KeyStoredBefore(Len(log))
    /\ fatalMsg = ErrMsg("pk")
    /\ before.exists /\ before.rows # {}

\* The step the k-th entry of the log of a run over n source rows must be.
ExpectedStep(k, n) ==
    IF k = 1 THEN "begin"
    ELSE IF k = 2 THEN "drop"
    ELSE IF k = 3 THEN "create"
    ELSE IF k = 4 THEN "select"
    ELSE IF k <= 4 + 2 * n THEN (IF k % 2 = 1 THEN "scan" ELSE "insert")
    ELSE IF k = 2 * n + 5 THEN "index"
    ELSE IF k = 2 * n + 6 THEN "countpg"
    ELSE IF k = 2 * n + 7 THEN "countsrc"
    ELSE IF k = 2 * n + 8 THEN "verify"
    ELSE IF k = 2 * n + 9 THEN "report"
    ELSE "none"

\* C8: the steps of a run are executed in the order begin, drop, create,
\* select, (scan, insert) for each source row in turn, index, counts, verification,
\* report; the inserts come in ascending ipfrom order, one per source row;
\* only the last step executed can have failed, and then the run has ended.
StepOrderFailFast ==
    /\ \A k \in 1..Len(log) :
          /\ log[k].step = ExpectedStep(k, Len(ipv4))
          /\ log[k].step \in {"scan", "insert"} => log[k].row = (k - 3) \div 2
          /\ log[k].step = "insert" => log[k].key = ScanInt(rs[log[k].row].IPFROM)
          /\ k < Len(log) => log[k].ok
    /\ \A j, k \in Inserts : j < k => log[j].key <= log[k].key
    /\ (Len(log) > 0 /\ ~log[Len(log)].ok) => pc = "exited"
    /\ pc = "exited" => (Len(log) > 0 /\ ~log[Len(log)].ok)

\* A complete run over a source stored in descending ipfrom order.
StepOrderWitness ==
    /\ pc = "done"
    /\ Len(ipv4) >= 2
    /\ ipv4[1].IPFROM[1] > ipv4[2].IPFROM[1]
    /\ Len(log) = 2 * Len(ipv4) + 9

\* C9: completion is reported only with the row count of the destination
\* table, read in the transaction, equal to the row count of the source; a
\* failed verification ends the run with a message carrying both counts.
VerificationGate ==
    /\ HasStep("report") =>
          /\ pgRowCount = sRowCount
          /\ sRowCount = Len(ipv4)
          /\ tx = "open" => pgRowCount = Cardinality(txTable.rows)
    /\ pc \in {"report", "return", "done"} => pgRowCount = sRowCount
    /\ \A k \in 1..Len(log) :
          (log[k].step = "verify" /\ ~log[k].ok) =>
              /\ pgRowCount # sRowCount
              /\ pc = "exited"
              /\ fatalMsg = [kind |-> "mismatch", sqlite |-> sRowCount, pg |-> pgRowCount]
              /\ fatalMsg.sqlite = Len(ipv4)
    /\ fatalMsg.kind = "mismatch" => ~HasStep("report")

\* The verification found the counts to differ.
VerificationGateWitness ==
    /\ pc = "exited"
    /\ fatalMsg.kind = "mismatch"
    /\ fatalMsg.pg < fatalMsg.sqlite

\* C10: an insert returning no error goes on to the next source row, logging a
\* warning exactly when its affected-row count is not 1; an insert returning an
\* error ends the run, and nothing happens in an ended run.
InsertAnomalyHandling ==
    [][/\ pc = "insert" =>
            IF err' = "nil"
            THEN /\ pc' = "scan"
                 /\ i' = i + 1
                 /\ warnings' = warnings + (IF tag' # 1 THEN 1 ELSE 0)
            ELSE /\ pc' = "exited"
                 /\ warnings' = warnings
       /\ pc = "exited" => (rerun' /\ pc' = "begin")]_vars

\* After an insert that affected no row, or more than one, the loop is at the
\* insert of the next source row.
InsertAnomalyWitness ==
    /\ pc = "insert"
    /\ i >= 2
    /\ warnings >= 1
    /\ tag # 1

====
